---- MODULE Spec2Model ----
(***************************************************************************)
(* The parachain-candidate dispute module                                  *)
(* (runtime/parachains/src/dispute.rs): its storage, the initializer       *)
(* hooks, process_concluded and resolution_threshold.                      *)
(*                                                                         *)
(* Four specifications:                                                    *)
(*   Spec          the module as the host drives it: the hooks, the        *)
(*                 session change, process_concluded, and the vote         *)
(*                 submission the storage item ValidatorVotes is kept for. *)
(*   SpecVerdict   process_concluded applied to every tally that           *)
(*                 count_pro_and_cons_votes could hand it (DisputeVotes is *)
(*                 a pair of unconstrained u32) and every content of       *)
(*                 ValidatorVotes.                                         *)
(*   SpecThreshold resolution_threshold and the comparison of lines        *)
(*                 184-185 applied to every (n, pro, cons) within bounds.  *)
(*   SpecRecount   process_concluded called again and again while the      *)
(*                 counts it is handed change between the calls.           *)
(*                                                                         *)
(* A Vec whose order no statement depends on (to_punish, the blacklist) is *)
(* modelled by the set of its elements.  A panic (unimplemented!,          *)
(* unreachable!) ends the call with a "Panic_..." result; the host         *)
(* discards the writes of a panicking call.                                *)
(***************************************************************************)
EXTENDS Integers, Sequences, FiniteSets, TLC

\* ------------------------------------------------------------------ bounds
MaxValidators == 2      \* validator indices 0 .. MaxValidators-1
MaxSession    == 1      \* session indices 0 .. MaxSession
MaxBlock      == 1      \* block numbers 0 .. MaxBlock
MaxVotes      == 9      \* each count of a DisputeVotes is in 0 .. MaxVotes
MaxN          == 12     \* validator-set sizes 0 .. MaxN for the threshold
MaxLog        == 2      \* Resolutions logged before process_concluded stops

\* --------------------------------------------------------- value domains
ValidatorIndex == 0 .. (MaxValidators - 1)
SessionIndex   == 0 .. MaxSession
BlockNumber    == 0 .. MaxBlock
\* Two block hashes are enough: the disputed block and an unrelated one.
Hash           == {"H", "G"}

\* Option<bool>: None is the empty set, Some(b) is {b}.
None     == {}
Some(b)  == {b}
OptionBool == {None, Some(TRUE), Some(FALSE)}

\* ValidatorId of the validator created k-th; a validator list is a Vec of
\* distinct ids.
ValidatorId == 1 .. MaxValidators
ValidatorLists ==
    { [i \in 1 .. k |-> i] : k \in 0 .. MaxValidators }
      \cup { [i \in 1 .. k |-> MaxValidators + 1 - i] : k \in 1 .. MaxValidators }

\* struct DisputeVotes { pro: u32, cons: u32 } and its derived Default.
DisputeVotes == [pro : 0 .. MaxVotes, cons : 0 .. MaxVotes]
DisputeVotes_default == [pro |-> 0, cons |-> 0]

\* The fork/ancestry provider: the active branch heads and the blocks each
\* descends from.  Branch "A" descends from block "H", branch "B" does not.
Branches == {"A", "B"}
Ancestry == [b \in Branches |-> IF b = "A" THEN {"H", "G"} ELSE {"G"}]

VARIABLES
    ValidatorVotes,       \* storage: ValidatorIndex -> Option<bool>
    Validators,           \* storage: Vec<ValidatorId>
    CurrentSessionIndex,  \* storage: SessionIndex
    blacklist,            \* the blocks handed to extend_blacklist
    pruned,               \* the branches the fork propagation invalidated
    resolutions,          \* every Resolution built so far, in order
    call,                 \* the operation last run and its arguments
    notification,         \* the session-change notification last delivered
    ret,                  \* what the operation last run did and returned
    tally,                \* SpecVerdict, SpecThreshold: the counts given
    n_validators,         \* SpecThreshold: the validator-set size given
    decided               \* SpecThreshold: threshold and the two comparisons

vars == << ValidatorVotes, Validators, CurrentSessionIndex, blacklist, pruned,
           resolutions, call, notification, ret, tally, n_validators, decided >>

storage == << ValidatorVotes, Validators, CurrentSessionIndex >>
harness == << tally, n_validators, decided >>

\* ------------------------------------------------------- pure functions

\* const fn resolution_threshold(n_validators: usize) -> usize
\* A validator list is a Vec, so n * 2 stays far below usize::MAX.
resolution_threshold_third(n) ==
    LET threshold == n \div 3
    IN  threshold + (n % 3)

resolution_threshold_floor(n) == (n * 2) \div 3

resolution_threshold(n) ==
    LET threshold == (n * 2) \div 3
    IN  threshold + ((n * 2) % 3)

\* bool ^ bool
Xor(a, b) == a # b

\* fn validators_pro() -> Vec<ValidatorId> { vec![] }
validators_pro == {}

\* The validators of the stored list whose stored vote is v.
Voted(v) ==
    { Validators[i + 1] :
        i \in { j \in ValidatorIndex : j < Len(Validators)
                                        /\ ValidatorVotes[j] = Some(v) } }

validators_cons_all_voters == Voted(TRUE) \cup Voted(FALSE)

\* fn validators_cons() -> Vec<ValidatorId> { vec![] }
validators_cons == {}

\* fn original_validating_valdiators(session) { unimplemented!("") }
original_validating_valdiators(session) ==
    [panic |-> TRUE, value |-> {}]

\* fn count_pro_and_cons_votes(block) -> DisputeVotes { DisputeVotes::default() }
count_pro_and_cons_votes(block) == DisputeVotes_default

\* fn transplant_to(resolution, active_heads) { }
transplant_to(resolution, active_heads, pr) == pr

\* fn extend_blacklist(burnt) { unimplemented!("Use that other module impl") }
extend_blacklist(bl, burnt) ==
    [panic |-> TRUE, blacklist |-> bl]

\* let all_validators = 10u32;
all_validators == 10

NoRet ==
    [result |-> "none", votes |-> DisputeVotes_default, thresh |-> 0,
     resolution |-> {}, sought_original |-> FALSE, burnt |-> {}]

\* The body of process_concluded from line 184 on, given the DisputeVotes of
\* line 183.  The result carries the Resolution built (a set of at most one),
\* whether the original validators were looked up, and the blacklist and the
\* pruned branches the call leaves.
process_concluded_from(votes, bl, pr, block_number, block_hash, session) ==
    LET thresh == resolution_threshold(all_validators)
        pro    == votes.pro >= thresh
        cons   == votes.cons >= thresh
        out(result, resolution, sought, bl2, pr2) ==
            [result |-> result, votes |-> votes, thresh |-> thresh,
             resolution |-> resolution, sought_original |-> sought,
             blacklist |-> bl2, pruned |-> pr2]
    IN
    IF ~ Xor(pro, cons) THEN
        out("Err_X", {}, FALSE, bl, pr)
    ELSE IF pro /\ cons THEN
        out("Panic_unreachable", {}, FALSE, bl, pr)
    ELSE IF ~pro /\ ~cons THEN
        out("Ok", {}, FALSE, bl, pr)
    ELSE IF cons THEN
        LET ext == extend_blacklist(bl, {block_hash})
            resolution == [hash |-> block_hash,
                           to_punish |-> validators_pro,
                           was_truely_wrong |-> TRUE]
        IN  IF ext.panic
            THEN out("Panic_unimplemented", {}, FALSE, bl, pr)
            ELSE LET active_heads == {}
                     pr2 == transplant_to(resolution, active_heads, pr)
                     original_offenders == original_validating_valdiators(session)
                 IN  IF original_offenders.panic
                     THEN out("Panic_unimplemented", {resolution}, TRUE, bl, pr)
                     ELSE out("Ok", {resolution}, TRUE, ext.blacklist, pr2)
    ELSE IF pro THEN
        LET resolution == [hash |-> block_hash,
                           to_punish |-> validators_cons,
                           was_truely_wrong |-> FALSE]
            active_heads == {}
            pr2 == transplant_to(resolution, active_heads, pr)
            original_offenders == original_validating_valdiators(session)
        IN  IF original_offenders.panic
            THEN out("Panic_unimplemented", {resolution}, TRUE, bl, pr)
            ELSE out("Ok", {resolution}, TRUE, bl, pr2)
    ELSE
        out("Err_Y", {}, FALSE, bl, pr)

\* What a process_concluded call did: its result, the counts and threshold it
\* compared, the Resolution it built, whether it looked the original
\* validators up, and the blocks it added to the blacklist bl.
Outcome(o, bl) ==
    [result |-> o.result, votes |-> o.votes, thresh |-> o.thresh,
     resolution |-> o.resolution, sought_original |-> o.sought_original,
     burnt |-> o.blacklist \ bl]

\* The log of Resolutions after a call that built the set `built`.
Logged(log, built) ==
    IF built = {} THEN log ELSE Append(log, CHOOSE r \in built : TRUE)

\* ---------------------------------------------------------------- Init

NoCall == [op |-> "genesis", block_number |-> 0, block_hash |-> "G",
           session |-> 0, validator_index |-> 0, bit |-> FALSE]
NoNotification == [validators |-> << >>, session_index |-> 0]
NotDecided == [done |-> FALSE, thresh |-> 0, pro |-> FALSE, cons |-> FALSE]

\* Genesis: Validators is set from the chain spec (config(validators)), the
\* other storage items have their default.  The blacklist is kept by another
\* module (extend_blacklist: "Use that other module impl"), so the blocks it
\* holds when this module first runs are an input.
Init ==
    /\ ValidatorVotes = [i \in ValidatorIndex |-> None]
    /\ Validators \in ValidatorLists
    /\ CurrentSessionIndex = 0
    /\ blacklist \in SUBSET Hash
    /\ pruned = {}
    /\ resolutions = << >>
    /\ call = NoCall
    /\ notification = NoNotification
    /\ ret = NoRet
    /\ tally = DisputeVotes_default
    /\ n_validators = 0
    /\ decided = NotDecided

\* ------------------------------------------------------------- actions

\* pub(crate) fn initializer_initialize(_now) -> Weight { 0 }
initializer_initialize ==
    \E now \in BlockNumber :
        /\ call' = [NoCall EXCEPT !.op = "initializer_initialize",
                                  !.block_number = now]
        /\ ret' = [NoRet EXCEPT !.result = "0"]
        /\ UNCHANGED << storage, blacklist, pruned, resolutions, notification,
                        harness >>

\* pub(crate) fn initializer_finalize() { }
initializer_finalize ==
    /\ call' = [NoCall EXCEPT !.op = "initializer_finalize"]
    /\ ret' = [NoRet EXCEPT !.result = "()"]
    /\ UNCHANGED << storage, blacklist, pruned, resolutions, notification,
                    harness >>

\* initializer_on_new_session draining the blacklist along with the votes.
initializer_on_new_session_drain_all ==
    \E vals \in ValidatorLists, idx \in SessionIndex :
        /\ notification' = [validators |-> vals, session_index |-> idx]
        /\ ValidatorVotes' = [i \in ValidatorIndex |-> None]
        /\ blacklist' = {}
        /\ call' = [NoCall EXCEPT !.op = "initializer_on_new_session"]
        /\ ret' = [NoRet EXCEPT !.result = "()"]
        /\ UNCHANGED << Validators, CurrentSessionIndex, pruned,
                        resolutions, harness >>

\* pub(crate) fn initializer_on_new_session(notification)
\*     for _ in <ValidatorVotes>::drain() { }
initializer_on_new_session ==
    \E vals \in ValidatorLists, idx \in SessionIndex :
        /\ notification' = [validators |-> vals, session_index |-> idx]
        /\ ValidatorVotes' = [i \in ValidatorIndex |-> None]
        /\ call' = [NoCall EXCEPT !.op = "initializer_on_new_session"]
        /\ ret' = [NoRet EXCEPT !.result = "()"]
        /\ UNCHANGED << Validators, CurrentSessionIndex, blacklist, pruned,
                        resolutions, harness >>

\* pub(crate) fn process_concluded(block_number, block_hash, session)
process_concluded ==
    \E block_number \in BlockNumber, block_hash \in Hash, session \in SessionIndex :
        LET votes == count_pro_and_cons_votes(block_hash)
            o == process_concluded_from(votes, blacklist, pruned,
                                        block_number, block_hash, session)
        IN  /\ call' = [NoCall EXCEPT !.op = "process_concluded",
                                      !.block_number = block_number,
                                      !.block_hash = block_hash,
                                      !.session = session]
            /\ ret' = Outcome(o, blacklist)
            /\ blacklist' = o.blacklist
            /\ pruned' = o.pruned
            /\ resolutions' = Logged(resolutions, o.resolution)
            /\ UNCHANGED << storage, notification, harness >>

\* submit_vote letting a later vote of a validator replace its first one.
submit_vote_overwrite ==
    \E validator_index \in ValidatorIndex, bit \in BOOLEAN :
        /\ call' = [NoCall EXCEPT !.op = "submit_vote",
                                  !.validator_index = validator_index,
                                  !.bit = bit]
        /\ IF validator_index >= Len(Validators) THEN
               /\ ret' = [NoRet EXCEPT !.result = "UnknownValidator"]
               /\ UNCHANGED ValidatorVotes
           ELSE
               /\ ret' = [NoRet EXCEPT !.result = "Ok"]
               /\ ValidatorVotes' = [ValidatorVotes EXCEPT ![validator_index] = Some(bit)]
        /\ UNCHANGED << Validators, CurrentSessionIndex, blacklist, pruned,
                        resolutions, notification, harness >>

\* VoteLedger.submit_vote(validator_index, candidate, session, verdict_bit):
\* the writer of ValidatorVotes.  The storage map is keyed by the validator
\* index alone, so the candidate and the session do not enter the key.
submit_vote ==
    \E validator_index \in ValidatorIndex, bit \in BOOLEAN :
        /\ call' = [NoCall EXCEPT !.op = "submit_vote",
                                  !.validator_index = validator_index,
                                  !.bit = bit]
        /\ IF validator_index >= Len(Validators) THEN
               /\ ret' = [NoRet EXCEPT !.result = "UnknownValidator"]
               /\ UNCHANGED ValidatorVotes
           ELSE IF ValidatorVotes[validator_index] # None THEN
               /\ ret' = [NoRet EXCEPT !.result = "DuplicateVote"]
               /\ UNCHANGED ValidatorVotes
           ELSE
               /\ ret' = [NoRet EXCEPT !.result = "Ok"]
               /\ ValidatorVotes' = [ValidatorVotes EXCEPT ![validator_index] = Some(bit)]
        /\ UNCHANGED << Validators, CurrentSessionIndex, blacklist, pruned,
                        resolutions, notification, harness >>

Next ==
    \/ initializer_initialize
    \/ initializer_finalize
    \/ initializer_on_new_session
    \/ process_concluded
    \/ submit_vote

Spec == Init /\ [][Next]_vars

\* ---------------------------------------------------------- SpecVerdict
\* process_concluded on every tally and every content of ValidatorVotes.

InitVerdict ==
    /\ ValidatorVotes \in [ValidatorIndex -> OptionBool]
    /\ Validators = [i \in 1 .. MaxValidators |-> i]
    /\ CurrentSessionIndex = 0
    /\ blacklist = {}
    /\ pruned = {}
    /\ resolutions = << >>
    /\ call = NoCall
    /\ notification = NoNotification
    /\ ret = NoRet
    /\ tally \in DisputeVotes
    /\ n_validators = 0
    /\ decided = NotDecided

\* process_concluded burning the block whatever the counts are.
process_concluded_tally_burning ==
    /\ Len(resolutions) < MaxLog
    /\ \E block_number \in BlockNumber, block_hash \in Hash, session \in SessionIndex :
        LET o == process_concluded_from(tally, blacklist, pruned,
                                        block_number, block_hash, session)
        IN  /\ call' = [NoCall EXCEPT !.op = "process_concluded",
                                      !.block_number = block_number,
                                      !.block_hash = block_hash,
                                      !.session = session]
            /\ ret' = Outcome(o, blacklist)
            /\ blacklist' = o.blacklist \cup {block_hash}
            /\ pruned' = o.pruned
            /\ resolutions' = Logged(resolutions, o.resolution)
            /\ UNCHANGED << storage, notification, harness >>

\* process_concluded with line 183 yielding `tally`.
process_concluded_tally ==
    /\ Len(resolutions) < MaxLog
    /\ \E block_number \in BlockNumber, block_hash \in Hash, session \in SessionIndex :
        LET o == process_concluded_from(tally, blacklist, pruned,
                                        block_number, block_hash, session)
        IN  /\ call' = [NoCall EXCEPT !.op = "process_concluded",
                                      !.block_number = block_number,
                                      !.block_hash = block_hash,
                                      !.session = session]
            /\ ret' = Outcome(o, blacklist)
            /\ blacklist' = o.blacklist
            /\ pruned' = o.pruned
            /\ resolutions' = Logged(resolutions, o.resolution)
            /\ UNCHANGED << storage, notification, harness >>

NextVerdict == process_concluded_tally

SpecVerdict == InitVerdict /\ [][NextVerdict]_vars

\* -------------------------------------------------------- SpecThreshold
\* resolution_threshold(n) and the comparisons of line 185 on every
\* n in 0 .. MaxN and every pair of counts in 0 .. n.

InitThreshold ==
    /\ ValidatorVotes = [i \in ValidatorIndex |-> None]
    /\ Validators = << >>
    /\ CurrentSessionIndex = 0
    /\ blacklist = {}
    /\ pruned = {}
    /\ resolutions = << >>
    /\ call = NoCall
    /\ notification = NoNotification
    /\ ret = NoRet
    /\ n_validators \in 0 .. MaxN
    /\ tally \in [pro : 0 .. n_validators, cons : 0 .. n_validators]
    /\ decided = NotDecided

\* let thresh = resolution_threshold(n);
\* let (pro, cons) = (pro >= thresh, cons >= thresh);
threshold_compare ==
    /\ ~ decided.done
    /\ LET thresh == resolution_threshold(n_validators)
       IN  decided' = [done |-> TRUE, thresh |-> thresh,
                       pro |-> tally.pro >= thresh,
                       cons |-> tally.cons >= thresh]
    /\ UNCHANGED << storage, blacklist, pruned, resolutions, call,
                    notification, ret, tally, n_validators >>

NextThreshold == threshold_compare

SpecThreshold == InitThreshold /\ [][NextThreshold]_vars

\* ---------------------------------------------------------------- claims

\* The last operation was a process_concluded call, and the counts it compared.
Concluded  == call.op = "process_concluded"
ProReached == ret.votes.pro >= ret.thresh
ConsReached == ret.votes.cons >= ret.thresh

\* The verdict a process_concluded call arrived at: that of the Resolution it
\* built, "Undecided" when it built none.
Verdict ==
    IF \E r \in ret.resolution : ~ r.was_truely_wrong THEN "Valid"
    ELSE IF \E r \in ret.resolution : r.was_truely_wrong THEN "Invalid"
    ELSE "Undecided"

\* The result process_concluded returns for a dispute no side of which has
\* reached the threshold.
UndecidedResult ==
    process_concluded_from(DisputeVotes_default, {}, {}, 0, "G", 0).result

\* C1: for every validator-set size n >= 1 and counts with pro + cons <= n,
\* the comparisons of process_concluded never find both pro >= threshold(n)
\* and cons >= threshold(n).
C1_AtMostOneSideAtThreshold ==
    (decided.done /\ n_validators >= 1
        /\ tally.pro + tally.cons <= n_validators)
    => ~ (decided.pro /\ decided.cons)

\* C1 witness: one side at the threshold while the other side has votes too.
C1_Witness ==
    /\ decided.done
    /\ n_validators >= 1
    /\ tally.pro + tally.cons <= n_validators
    /\ decided.pro
    /\ tally.cons >= 1

\* C2: with 10 validators the threshold is 7; (7, 0) is Valid, (0, 7) is
\* Invalid, (6, 4) is Undecided; the verdict is Valid exactly when only pro
\* reached the threshold and Invalid exactly when only cons did.
C2_VerdictTable ==
    Concluded =>
        /\ ret.thresh = 7
        /\ (ret.votes = [pro |-> 7, cons |-> 0] => Verdict = "Valid")
        /\ (ret.votes = [pro |-> 0, cons |-> 7] => Verdict = "Invalid")
        /\ (ret.votes = [pro |-> 6, cons |-> 4] => Verdict = "Undecided")
        /\ (Verdict = "Valid" <=> (ProReached /\ ~ ConsReached))
        /\ (Verdict = "Invalid" <=> (ConsReached /\ ~ ProReached))

\* C3: a process_concluded call in which neither count reaches the threshold
\* returns success, builds no Resolution, adds nothing to the blacklist and
\* selects no offenders.
C3_UndecidedIsOk ==
    (Concluded /\ ~ ProReached /\ ~ ConsReached)
    => /\ ret.result = "Ok"
       /\ ret.resolution = {}
       /\ ret.burnt = {}
       /\ ~ ret.sought_original

\* C4: a process_concluded call in which both counts reach the threshold
\* aborts with the fatal invariant-violation outcome, which differs from the
\* outcome of an undecided dispute, and builds no Resolution, blacklists no
\* block and selects no offenders.
C4_AmbiguousIsFatal ==
    (Concluded /\ ProReached /\ ConsReached)
    => /\ ret.result = "Panic_unreachable"
       /\ ret.result # UndecidedResult
       /\ ret.resolution = {}
       /\ ret.burnt = {}
       /\ ~ ret.sought_original

\* C5: a process_concluded call in which only cons reaches the threshold
\* builds a Resolution whose punished set is the validators who voted valid
\* united with the original validators of the session.
C5_InvalidPunishesProAndOriginal ==
    (Concluded /\ ConsReached /\ ~ ProReached)
    => /\ ret.resolution # {}
       /\ \A r \in ret.resolution :
            r.to_punish = Voted(TRUE)
                \cup original_validating_valdiators(call.session).value

\* C6: a process_concluded call in which only pro reaches the threshold
\* builds a Resolution whose punished set is exactly the validators who voted
\* invalid, and does not look the original validators up for punishment.
C6_ValidPunishesConsOnly ==
    (Concluded /\ ProReached /\ ~ ConsReached)
    => /\ ret.resolution # {}
       /\ \A r \in ret.resolution : r.to_punish = Voted(FALSE)
       /\ ~ ret.sought_original

\* C7: no validator in the punished set of a Resolution built by
\* process_concluded voted on the winning side.
C7_PunishedDisjointFromWinners ==
    \A r \in ret.resolution :
        r.to_punish \cap (IF r.was_truely_wrong THEN Voted(FALSE) ELSE Voted(TRUE))
            = {}

\* C7 witness: a Resolution was built while some validator had voted on the
\* side that won.
C7_Witness ==
    /\ Concluded
    /\ \E r \in ret.resolution :
         (IF r.was_truely_wrong THEN Voted(FALSE) ELSE Voted(TRUE)) # {}

\* C8: a process_concluded call that resolves against block H leaves H in the
\* blacklist, branch A (which descends from H) pruned and branch B (which does
\* not) untouched.
C8_ForkPropagation ==
    (Concluded /\ call.block_hash = "H" /\ ConsReached /\ ~ ProReached)
    => /\ "H" \in blacklist
       /\ \A b \in Branches : b \in pruned <=> "H" \in Ancestry[b]

\* C9: a session change keeps the votes recorded for a dispute that is still
\* open (no Resolution has been built).
C9_OpenVotesRetained ==
    [][ (call'.op = "initializer_on_new_session" /\ resolutions = << >>)
            => ValidatorVotes' = ValidatorVotes ]_vars

\* C10: after a session change the stored validator list and the stored
\* session index are those of the notification.
C10_SnapshotReplaced ==
    call.op = "initializer_on_new_session"
    => /\ Validators = notification.validators
       /\ CurrentSessionIndex = notification.session_index

\* C11: at most one Resolution is ever built for a disputed block hash: no two
\* entries of the log of Resolutions carry the same hash.
C11_OneResolutionPerHash ==
    \A i, j \in DOMAIN resolutions :
        i # j => resolutions[i].hash # resolutions[j].hash

\* ---------------------------------------------------------- SpecRecount
\* process_concluded called repeatedly while the DisputeVotes that
\* count_pro_and_cons_votes yields change between the calls.  The counts
\* taken are 0 and the two values around the threshold.

BoundaryCounts ==
    {0, resolution_threshold(all_validators) - 1,
        resolution_threshold(all_validators)}

InitRecount ==
    /\ ValidatorVotes = [i \in ValidatorIndex |-> None]
    /\ Validators = [i \in 1 .. MaxValidators |-> i]
    /\ CurrentSessionIndex = 0
    /\ blacklist = {}
    /\ pruned = {}
    /\ resolutions = << >>
    /\ call = NoCall
    /\ notification = NoNotification
    /\ ret = NoRet
    /\ tally \in [pro : BoundaryCounts, cons : BoundaryCounts]
    /\ n_validators = 0
    /\ decided = NotDecided

\* The votes known for the block change: line 183 yields other counts at the
\* next call.
recount ==
    /\ \E votes \in [pro : BoundaryCounts, cons : BoundaryCounts] :
        /\ votes # tally
        /\ tally' = votes
    /\ UNCHANGED << storage, blacklist, pruned, resolutions, call,
                    notification, ret, n_validators, decided >>

NextRecount ==
    \/ process_concluded_tally
    \/ recount

SpecRecount == InitRecount /\ [][NextRecount]_vars

\* C12: once a Resolution has been built for a block, a later
\* process_concluded call on that block neither treats its dispute as open
\* and undecided nor builds a Resolution with the other verdict.
C12_VerdictIsFinal ==
    [][ ( /\ tally' = tally
          /\ call'.op = "process_concluded"
          /\ \E i \in DOMAIN resolutions :
                resolutions[i].hash = call'.block_hash )
        => /\ ret'.result # UndecidedResult
           /\ \A i \in DOMAIN resolutions : \A r \in ret'.resolution :
                resolutions[i].hash = r.hash
                    => r.was_truely_wrong = resolutions[i].was_truely_wrong
      ]_vars

\* C13: the blacklist is append-only: no operation removes a block hash from
\* it.
C13_BlacklistAppendOnly ==
    [][ blacklist \subseteq blacklist' ]_vars

\* C13 witness: a block is in the blacklist after a session change (the drain
\* of the session change has run).
C13_Witness ==
    /\ call.op = "initializer_on_new_session"
    /\ "H" \in blacklist

\* The number of stored votes for (TRUE) and against (FALSE) the candidate.
VoteCount(v) == Cardinality({ i \in ValidatorIndex : ValidatorVotes[i] = Some(v) })

\* C14: a vote by a validator whose vote is already stored is rejected as a
\* duplicate; the stored vote keeps its first value and the pro and against
\* counts are unchanged.
C14_FirstVoteStands ==
    [][ ( /\ call'.op = "submit_vote"
          /\ call'.validator_index < Len(Validators)
          /\ ValidatorVotes[call'.validator_index] # None )
        => /\ ret'.result = "DuplicateVote"
           /\ ValidatorVotes'[call'.validator_index]
                = ValidatorVotes[call'.validator_index]
           /\ VoteCount(TRUE)' = VoteCount(TRUE)
           /\ VoteCount(FALSE)' = VoteCount(FALSE)
      ]_vars

\* C14 witness: a validator whose stored vote is b has just voted ~b and was
\* rejected.
C14_Witness ==
    /\ call.op = "submit_vote"
    /\ ret.result = "DuplicateVote"
    /\ ValidatorVotes[call.validator_index] = Some(~ call.bit)

C16_SmallestAboveTwoThirds ==
    (decided.done /\ n_validators >= 1)
    => /\ 3 * decided.thresh > 2 * n_validators
       /\ 3 * (decided.thresh - 1) <= 2 * n_validators

\* C17: while the dispute is open (no Resolution has been built), no
\* operation decreases its pro count or its against count.
C17_CountsNeverDecrease ==
    [][ resolutions = << >>
        => /\ VoteCount(TRUE)' >= VoteCount(TRUE)
           /\ VoteCount(FALSE)' >= VoteCount(FALSE) ]_vars

\* C18: the threshold process_concluded compares the counts against is
\* resolution_threshold of the size of the stored validator list.
C18_ThresholdOfValidatorSet ==
    Concluded => ret.thresh = resolution_threshold(Len(Validators))

\* C19: a block enters the blacklist only through a process_concluded call in
\* which cons reached the threshold and pro did not, and a block for which a
\* Valid Resolution was built is not blacklisted by that call.
C19_BlacklistOnlyOnInvalid ==
    [][ /\ blacklist' # blacklist
            => /\ call'.op = "process_concluded"
               /\ ret'.votes.cons >= ret'.thresh
               /\ ret'.votes.pro < ret'.thresh
        /\ \A r \in ret'.resolution :
            ~ r.was_truely_wrong => r.hash \notin blacklist' ]_vars

\* C19 witness: a call arrived at the Valid verdict for a block, and the block
\* is not in the blacklist.
C19_Witness ==
    /\ Concluded
    /\ Verdict = "Valid"
    /\ call.block_hash \notin blacklist

\* C20: for every validator-set size n >= 1, threshold(n) <= n.
C20_ThresholdReachable ==
    (decided.done /\ n_validators >= 1) => decided.thresh <= n_validators

====
